---- MODULE Spec2Model ----
(***************************************************************************)
(* Model of the GoLeagueMelo league simulator: four teams, a double        *)
(* round-robin of twelve matches over six weeks, the weekly simulator, the *)
(* league table builder, the match-result editor and the SQL storage       *)
(* service the HTTP server loads the league from and saves it to.          *)
(*                                                                         *)
(* Team objects live on a heap of references, because a Match holds        *)
(* *Team pointers: in console mode the matches point at the objects of     *)
(* league.Teams, in server mode GetMatches builds its own Team objects.    *)
(* Goal intensities are fixed-point numbers in hundredths.                 *)
(***************************************************************************)
EXTENDS Integers, Sequences, FiniteSets, TLC

VARIABLES mode, heap, matches, currentWeek, leagueTable, rng, db,
          call, resp, hist, events, goroutines

vars == <<mode, heap, matches, currentWeek, leagueTable, rng, db,
          call, resp, hist, events, goroutines>>

(***************************************************************************)
(* Bounds of the model.                                                    *)
(***************************************************************************)
\* MaxEvents: corrections, storage failures and restarts in one run, together.
MaxEvents == 3

\* NumGoroutines: requests the HTTP server handles at the same time.
NumGoroutines == 2

(***************************************************************************)
(* Program constants.                                                      *)
(***************************************************************************)
NumTeams == 4
HomeAdvantage == 5
MaxGoals == 6
Scale == 100
RandMod == Scale

TeamIds == 1..NumTeams
TeamNames == <<"Manchester United", "Liverpool", "Manchester City", "Chelsea">>
TeamStrengths == <<80, 85, 90, 88>>

\* league.Teams: the references of the League's own Team objects.
leagueTeams == <<1, 2, 3, 4>>

\* The reference of the Team object GetMatches creates for team id i.
cacheRef(i) == NumTeams + i

\* The states the random generator of a new process may start in.
Seeds == {0, 1}

\* Scorelines a client may send to PUT /league/matches/{id}: a draw and an
\* away win with a negative score (the handler validates nothing).
EditScorelines == {<<0, 0>>, <<-1, 2>>}

\* Match ids a client may send: a match of week 1, a match of week 6 and an
\* id that no match has.
EditIds == {2, 11, 13}

(***************************************************************************)
(* Teams and fixtures.                                                     *)
(***************************************************************************)
NewTeam(id, name, strength) ==
  [TeamName |-> name, TeamId |-> id, TeamStrength |-> strength,
   GoalsFor |-> 0, GoalsAgainst |-> 0, Wins |-> 0, Draws |-> 0,
   Losses |-> 0, Points |-> 0, GoalsDifference |-> 0]

createPremierLeagueTeams ==
  [i \in TeamIds |-> NewTeam(i, TeamNames[i], TeamStrengths[i])]

\* weekFixtures whose third week repeats the pairings of the first.
weekFixturesRepeated ==
  << << <<1, 2>>, <<3, 4>> >>,
     << <<1, 3>>, <<2, 4>> >>,
     << <<1, 2>>, <<3, 4>> >> >>

weekFixtures ==
  << << <<1, 2>>, <<3, 4>> >>,
     << <<1, 3>>, <<2, 4>> >>,
     << <<1, 4>>, <<2, 3>> >> >>

NumLegWeeks == Len(weekFixtures)
PerWeek == Len(weekFixtures[1])
NumMatches == 2 * NumLegWeeks * PerWeek

\* createPremierLeagueMatches whose second leg is not reversed.
createPremierLeagueMatchesSameLeg(teams) ==
  [k \in 1..NumMatches |->
    LET week == ((k - 1) \div PerWeek) + 1
        fixture == weekFixtures[((week - 1) % NumLegWeeks) + 1][((k - 1) % PerWeek) + 1]
    IN [MatchId |-> k, Week |-> week,
        HomeTeam |-> teams[fixture[1]],
        AwayTeam |-> teams[fixture[2]],
        HomeTeamScore |-> 0, AwayTeamScore |-> 0, Played |-> FALSE]]

\* teams is the sequence of references the fixtures index into.
createPremierLeagueMatches(teams) ==
  [k \in 1..NumMatches |->
    LET week == ((k - 1) \div PerWeek) + 1
        leg == (week - 1) \div NumLegWeeks
        fixture == weekFixtures[((week - 1) % NumLegWeeks) + 1][((k - 1) % PerWeek) + 1]
    IN [MatchId |-> k, Week |-> week,
        HomeTeam |-> IF leg = 0 THEN teams[fixture[1]] ELSE teams[fixture[2]],
        AwayTeam |-> IF leg = 0 THEN teams[fixture[2]] ELSE teams[fixture[1]],
        HomeTeamScore |-> 0, AwayTeamScore |-> 0, Played |-> FALSE]]

(***************************************************************************)
(* math/rand: the generator is a state machine whose seed is arbitrary.    *)
(* Float64 yields a value of [0, 1) in hundredths and steps the generator. *)
(***************************************************************************)
Float64(s) == s
NextRand(s) == (21 * s + 17) % RandMod

(***************************************************************************)
(* Match Outcome Engine.                                                   *)
(***************************************************************************)
Min(a, b) == IF a < b THEN a ELSE b
Max(a, b) == IF a > b THEN a ELSE b

\* (strength / 100.0) * 4.0 + 0.5, in hundredths.
attack(strength) == strength * 4 + Scale \div 2

\* rand.Float64() * 2.0 - 1.0, in hundredths.
randomFactor(r) == (r * 2 * Scale) \div RandMod - Scale

\* score without the cap at 6.
scoreUncapped(strength, r) ==
  LET expected == Max(attack(strength) + randomFactor(r), 0)
  IN (expected + Scale \div 2) \div Scale

\* floor at 0, int(expected + 0.5), cap at 6.
score(strength, r) ==
  LET expected == Max(attack(strength) + randomFactor(r), 0)
  IN Min((expected + Scale \div 2) \div Scale, MaxGoals)

\* addResult with a home win worth two points.
addResultTwoPoints(h, home, away, hs, as) ==
  LET g == [h EXCEPT ![home].GoalsFor = @ + hs,
                     ![away].GoalsFor = @ + as,
                     ![home].GoalsAgainst = @ + as,
                     ![away].GoalsAgainst = @ + hs]
      p == IF hs > as
             THEN [g EXCEPT ![home].Wins = @ + 1, ![away].Losses = @ + 1,
                            ![home].Points = @ + 2]
           ELSE IF hs < as
             THEN [g EXCEPT ![away].Wins = @ + 1, ![home].Losses = @ + 1,
                            ![away].Points = @ + 3]
           ELSE [g EXCEPT ![home].Draws = @ + 1, ![away].Draws = @ + 1,
                          ![home].Points = @ + 1, ![away].Points = @ + 1]
      d == [p EXCEPT ![home].GoalsDifference = p[home].GoalsFor - p[home].GoalsAgainst]
  IN [d EXCEPT ![away].GoalsDifference = d[away].GoalsFor - d[away].GoalsAgainst]

\* Ledger update of simulateMatch for the scoreline (hs, as).
addResult(h, home, away, hs, as) ==
  LET g == [h EXCEPT ![home].GoalsFor = @ + hs,
                     ![away].GoalsFor = @ + as,
                     ![home].GoalsAgainst = @ + as,
                     ![away].GoalsAgainst = @ + hs]
      p == IF hs > as
             THEN [g EXCEPT ![home].Wins = @ + 1, ![away].Losses = @ + 1,
                            ![home].Points = @ + 3]
           ELSE IF hs < as
             THEN [g EXCEPT ![away].Wins = @ + 1, ![home].Losses = @ + 1,
                            ![away].Points = @ + 3]
           ELSE [g EXCEPT ![home].Draws = @ + 1, ![away].Draws = @ + 1,
                          ![home].Points = @ + 1, ![away].Points = @ + 1]
      d == [p EXCEPT ![home].GoalsDifference = p[home].GoalsFor - p[home].GoalsAgainst]
  IN [d EXCEPT ![away].GoalsDifference = d[away].GoalsFor - d[away].GoalsAgainst]

\* alreadyPlayed without the check: a played match is played again.
alreadyPlayedIgnored(match) == FALSE

\* if match.Played { return }
alreadyPlayed(match) == match.Played

\* st = [heap, matches, rng]; i is the index of the match in league.Matches.
simulateMatch(st, i) ==
  LET match == st.matches[i]
      r1 == st.rng
      r2 == NextRand(r1)
      homeTeamScore == score(st.heap[match.HomeTeam].TeamStrength + HomeAdvantage, Float64(r1))
      awayTeamScore == score(st.heap[match.AwayTeam].TeamStrength, Float64(r2))
  IN IF alreadyPlayed(match) THEN st
     ELSE [heap |-> addResult(st.heap, match.HomeTeam, match.AwayTeam,
                              homeTeamScore, awayTeamScore),
           matches |-> [st.matches EXCEPT ![i].HomeTeamScore = homeTeamScore,
                                          ![i].AwayTeamScore = awayTeamScore,
                                          ![i].Played = TRUE],
           rng |-> NextRand(r2)]

(***************************************************************************)
(* Standings Builder.                                                      *)
(***************************************************************************)
\* tableEntry that counts three points a win and none for a draw.
tableEntryWithoutDraws(team) ==
  [TeamName |-> team.TeamName,
   Played |-> team.Wins + team.Draws + team.Losses,
   Wins |-> team.Wins, Draws |-> team.Draws, Losses |-> team.Losses,
   GoalsFor |-> team.GoalsFor, GoalsAgainst |-> team.GoalsAgainst,
   GoalsDifference |-> team.GoalsFor - team.GoalsAgainst,
   Points |-> 3 * team.Wins, Position |-> 0]

tableEntry(team) ==
  [TeamName |-> team.TeamName,
   Played |-> team.Wins + team.Draws + team.Losses,
   Wins |-> team.Wins, Draws |-> team.Draws, Losses |-> team.Losses,
   GoalsFor |-> team.GoalsFor, GoalsAgainst |-> team.GoalsAgainst,
   GoalsDifference |-> team.GoalsFor - team.GoalsAgainst,
   Points |-> team.Points, Position |-> 0]

\* less that compares the points only.
lessPointsOnly(a, b) == a.Points > b.Points

less(a, b) ==
  IF a.Points = b.Points THEN a.GoalsDifference > b.GoalsDifference
  ELSE a.Points > b.Points

swap(s, i, j) == [s EXCEPT ![i] = s[j], ![j] = s[i]]

\* sort.Slice on a slice of at most 12 elements is an insertion sort.
RECURSIVE sinkDown(_, _)
sinkDown(s, j) ==
  IF j > 1 /\ less(s[j], s[j - 1]) THEN sinkDown(swap(s, j, j - 1), j - 1) ELSE s

RECURSIVE insertionSort(_, _)
insertionSort(s, i) ==
  IF i > Len(s) THEN s ELSE insertionSort(sinkDown(s, i), i + 1)

\* resetLeagueTable that keeps the previous table.
resetLeagueTableKept(league) == league

\* league.LeagueTable = []*LeagueTableEntry{}: the previous table is dropped.
resetLeagueTable(league) == [league EXCEPT !.leagueTable = << >>]

\* The loop over league.Teams that appends one entry per team, from index i.
RECURSIVE appendEntries(_, _)
appendEntries(league, i) ==
  IF i > Len(leagueTeams) THEN league
  ELSE appendEntries(
         [league EXCEPT !.leagueTable =
            Append(@, tableEntry(league.heap[leagueTeams[i]]))],
         i + 1)

\* sortLeagueTable by a sort that is not stable: it takes the entries from
\* the last to the first.
sortLeagueTableUnstable(league) ==
  LET table == league.leagueTable
      n == Len(table)
  IN [league EXCEPT !.leagueTable =
        insertionSort([i \in 1..n |-> table[n + 1 - i]], 2)]

sortLeagueTable(league) ==
  [league EXCEPT !.leagueTable = insertionSort(@, 2)]

\* assignPositions that also gives the team of position 1 a point.
assignPositionsOnTeams(league) ==
  LET table == league.leagueTable
  IN [league EXCEPT !.leagueTable =
                      [i \in 1..Len(table) |-> [table[i] EXCEPT !.Position = i]],
                    !.heap =
                      [r \in DOMAIN league.heap |->
                         IF \E i \in 1..Len(table) :
                              table[i].TeamName = league.heap[r].TeamName /\ i = 1
                           THEN [league.heap[r] EXCEPT !.Points = @ + 1]
                           ELSE league.heap[r]]]

\* Assign positions: entry.Position = i + 1 for the 0-based index i.
assignPositions(league) ==
  LET table == league.leagueTable
  IN [league EXCEPT !.leagueTable =
        [i \in 1..Len(table) |-> [table[i] EXCEPT !.Position = i]]]

\* league is a record with the fields heap and leagueTable at least.
updateLeagueTable(league) ==
  assignPositions(sortLeagueTable(appendEntries(resetLeagueTable(league), 1)))

(***************************************************************************)
(* Weekly Scheduler.                                                       *)
(***************************************************************************)
\* The loop of weeklySimulator over league.Matches, from index i.
RECURSIVE simulateWeek(_, _, _)
simulateWeek(st, week, i) ==
  IF i > Len(st.matches) THEN st
  ELSE simulateWeek(IF st.matches[i].Week = week /\ ~st.matches[i].Played
                      THEN simulateMatch(st, i) ELSE st,
                    week, i + 1)

\* lg = [heap, matches, currentWeek, leagueTable, rng]
weeklySimulator(lg) ==
  LET week == lg.currentWeek + 1
      st == simulateWeek([heap |-> lg.heap, matches |-> lg.matches, rng |-> lg.rng],
                         week, 1)
  IN updateLeagueTable(
       [heap |-> st.heap, matches |-> st.matches, currentWeek |-> week,
        leagueTable |-> lg.leagueTable, rng |-> st.rng])

RECURSIVE maxWeek(_, _)
maxWeek(ms, i) ==
  IF i > Len(ms) THEN 0 ELSE Max(ms[i].Week, maxWeek(ms, i + 1))

totalWeeks(ms) == maxWeek(ms, 1)

League == [heap |-> heap, matches |-> matches, currentWeek |-> currentWeek,
           leagueTable |-> leagueTable, rng |-> rng]

(***************************************************************************)
(* predictChampionship.  The weights are float64 sums of products of the   *)
(* integers of a table entry with 0.4, 0.3 (strength / 100 * 30), 0.2 and  *)
(* 1.0, times 1.2 or 1.1: here the factors are in tenths and the weights   *)
(* integers in hundredths, and a percentage weight / totalWeight * 100 is  *)
(* the fraction num / den.                                                 *)
(***************************************************************************)
DefaultStrength == 75
PointsWeight == 4
StrengthWeight == 3
GoalDifferenceWeight == 2
FormWeight == 10
LeaderBonus == 12
RunnerUpBonus == 11
NoBonus == 10
EqualChance == 25

\* The strength of the first team of league.Teams with the entry's name.
teamStrength(league, entry) ==
  LET found == {i \in 1..Len(leagueTeams) :
                  league.heap[leagueTeams[i]].TeamName = entry.TeamName}
  IN IF found = {} THEN DefaultStrength
     ELSE league.heap[leagueTeams[CHOOSE i \in found : \A j \in found : i <= j]].TeamStrength

baseWeight(league, entry) ==
  PointsWeight * entry.Points
    + StrengthWeight * teamStrength(league, entry)
    + Max(GoalDifferenceWeight * entry.GoalsDifference, 0)
    + FormWeight * entry.Wins

positionBonus(entry) ==
  IF entry.Position = 1 THEN LeaderBonus
  ELSE IF entry.Position = 2 THEN RunnerUpBonus
  ELSE NoBonus

weight(league, entry) == baseWeight(league, entry) * positionBonus(entry)

RECURSIVE SumSeq(_)
SumSeq(q) == IF q = << >> THEN 0 ELSE q[1] + SumSeq(Tail(q))

\* totalWeight that adds the weights up before the bonus is applied.
totalWeightBeforeBonus(league) ==
  SumSeq([i \in 1..Len(league.leagueTable) |->
            baseWeight(league, league.leagueTable[i]) * NoBonus])

totalWeight(league) ==
  SumSeq([i \in 1..Len(league.leagueTable) |-> weight(league, league.leagueTable[i])])

\* teamWeights: a map, so a later entry of the same name replaces an earlier.
teamWeights(league) ==
  LET table == league.leagueTable
      last(name) == CHOOSE i \in 1..Len(table) :
                      /\ table[i].TeamName = name
                      /\ \A j \in 1..Len(table) : table[j].TeamName = name => j <= i
  IN [name \in {table[i].TeamName : i \in 1..Len(table)} |->
        weight(league, table[last(name)])]

predictChampionship(league) ==
  LET weights == teamWeights(league)
      total == totalWeight(league)
  IN [teamName \in DOMAIN weights |->
        IF total > 0 THEN [num |-> weights[teamName] * 100, den |-> total]
        ELSE [num |-> EqualChance, den |-> 1]]

(***************************************************************************)
(* SQL storage service: the teams, matches and league_state tables.        *)
(***************************************************************************)
matchRow(h, m) ==
  [id |-> m.MatchId, week |-> m.Week,
   home_team_id |-> h[m.HomeTeam].TeamId, away_team_id |-> h[m.AwayTeam].TeamId,
   home_score |-> m.HomeTeamScore, away_score |-> m.AwayTeamScore,
   played |-> m.Played]

UpdateCurrentWeek(week) == [op |-> "UpdateCurrentWeek", week |-> week]
SaveMatchResult(h, m) == [op |-> "SaveMatchResult", row |-> matchRow(h, m)]
UpdateTeam(team) == [op |-> "UpdateTeam", team |-> team]

\* The effect of one successful storage call on the database.
execCall(d, c) ==
  IF c.op = "UpdateCurrentWeek" THEN [d EXCEPT !.week = c.week]
  ELSE IF c.op = "SaveMatchResult" THEN [d EXCEPT !.matches[c.row.id] = c.row]
  ELSE [d EXCEPT !.teams[c.team.TeamId] = c.team]

\* The first n calls of a sequence of storage calls succeed.
RECURSIVE execCalls(_, _, _)
execCalls(d, calls, n) ==
  IF n = 0 THEN d ELSE execCall(execCalls(d, calls, n - 1), calls[n])

\* InitializeDatabase and InitializeTeamsAndMatches on an empty database.
InitializeTeamsAndMatches ==
  LET initialTeams == createPremierLeagueTeams
      initialMatches == createPremierLeagueMatches(leagueTeams)
  IN [teams |-> initialTeams,
      matches |-> [k \in 1..NumMatches |-> matchRow(initialTeams, initialMatches[k])],
      week |-> 0]

\* GetTeams: one Team object per row, in id order, at the references 1..4.
\* GetMatches: its own teamCache objects, with name and strength only.
loadHeap(d) ==
  [r \in 1..(2 * NumTeams) |->
    IF r <= NumTeams THEN d.teams[r]
    ELSE NewTeam(r - NumTeams, d.teams[r - NumTeams].TeamName,
                 d.teams[r - NumTeams].TeamStrength)]

GetMatches(d) ==
  [k \in 1..Len(d.matches) |->
    [MatchId |-> d.matches[k].id, Week |-> d.matches[k].week,
     HomeTeam |-> cacheRef(d.matches[k].home_team_id),
     AwayTeam |-> cacheRef(d.matches[k].away_team_id),
     HomeTeamScore |-> d.matches[k].home_score,
     AwayTeamScore |-> d.matches[k].away_score,
     Played |-> d.matches[k].played]]

\* GetCurrentWeek that answers the week after the stored one.
GetCurrentWeekNext(d) == d.week + 1

GetCurrentWeek(d) == d.week

noDb == [teams |-> << >>, matches |-> << >>, week |-> 0]

(***************************************************************************)
(* Responses of the operations.                                            *)
(***************************************************************************)
StatusOK == 200
StatusBadRequest == 400
StatusNotFound == 404
StatusInternalServerError == 500

NoMoreMatches == [status |-> StatusBadRequest, body |-> "no more matches to simulate"]
MatchNotFound == [status |-> StatusNotFound, body |-> "Match not found"]
MatchNotYetPlayed == [status |-> StatusBadRequest, body |-> "Cannot edit unplayed match"]
\* SimulateSaveFailed answered as a success: the storage error is swallowed.
SimulateSaveSwallowed == [status |-> StatusOK, body |-> "failed to save"]

SimulateSaveFailed == [status |-> StatusBadRequest, body |-> "failed to save"]
EditSaveFailed == [status |-> StatusInternalServerError, body |-> "Failed to save"]
TableResponse == [status |-> StatusOK, body |-> "LeagueTable"]
NoResponse == [status |-> 0, body |-> ""]

Call(op, id) == [op |-> op, id |-> id]

(***************************************************************************)
(* net/http runs every request in a goroutine of its own.  A goroutine is  *)
(* at a position pc of its handler, with the locals of the handler: the    *)
(* week counter it has loaded, the index of its loop over league.Matches   *)
(* and the table it has read for its response.                             *)
(***************************************************************************)
Goroutines == 1..NumGoroutines

Goroutine(op, pc, week, i, table) ==
  [op |-> op, pc |-> pc, week |-> week, i |-> i, table |-> table]

NoRequests == [g \in Goroutines |-> Goroutine("none", "idle", 0, 0, << >>)]

(***************************************************************************)
(* Initial states: console mode (main) and server mode (initializeLeague). *)
(***************************************************************************)
InitConsole ==
  /\ mode = "console"
  /\ heap = createPremierLeagueTeams
  /\ matches = createPremierLeagueMatches(leagueTeams)
  /\ currentWeek = 0
  /\ leagueTable = << >>
  /\ db = noDb

initializeLeague(d) ==
  updateLeagueTable(
    [heap |-> loadHeap(d), matches |-> GetMatches(d),
     currentWeek |-> GetCurrentWeek(d), leagueTable |-> << >>])

InitServer ==
  /\ mode = "server"
  /\ db = InitializeTeamsAndMatches
  /\ heap = initializeLeague(db).heap
  /\ matches = initializeLeague(db).matches
  /\ currentWeek = initializeLeague(db).currentWeek
  /\ leagueTable = initializeLeague(db).leagueTable

Init ==
  /\ InitConsole \/ InitServer
  /\ rng \in Seeds
  /\ call = Call("start", 0)
  /\ resp = NoResponse
  /\ hist = << >>
  /\ events = 0
  /\ goroutines = NoRequests

(***************************************************************************)
(* Console mode: one iteration of the loop of playSeason.                  *)
(***************************************************************************)
PlaySeasonWeek ==
  /\ mode = "console"
  /\ currentWeek + 1 <= totalWeeks(matches)
  /\ \E lg \in {weeklySimulator(League)} :
        /\ heap' = lg.heap
        /\ matches' = lg.matches
        /\ currentWeek' = lg.currentWeek
        /\ leagueTable' = lg.leagueTable
        /\ rng' = lg.rng
  /\ call' = Call("playSeason", 0)
  /\ resp' = NoResponse
  /\ hist' = << >>
  /\ UNCHANGED <<mode, db, events, goroutines>>

(***************************************************************************)
(* Server mode: the storage calls an operation issues after its in-memory  *)
(* work, in the order of the code.  The calls stop at the first error.     *)
(***************************************************************************)
RECURSIVE saveMatches(_, _, _)
saveMatches(lg, i, acc) ==
  IF i > Len(lg.matches) THEN acc
  ELSE saveMatches(lg, i + 1,
         IF lg.matches[i].Week = lg.currentWeek /\ lg.matches[i].Played
           THEN Append(acc, SaveMatchResult(lg.heap, lg.matches[i])) ELSE acc)

saveWeek(lg) ==
  <<UpdateCurrentWeek(lg.currentWeek)>>
  \o saveMatches(lg, 1, << >>)
  \o [i \in 1..Len(leagueTeams) |-> UpdateTeam(lg.heap[leagueTeams[i]])]

\* hasMatches without the validation: the advance is never refused.
hasMatchesUnchecked(ms, nextWeek) == TRUE

hasMatches(ms, nextWeek) ==
  \E i \in 1..Len(ms) : ms[i].Week = nextWeek /\ ~ms[i].Played

\* The early return that has already counted the week.
noMoreMatchesCounted(lg) == [lg EXCEPT !.currentWeek = @ + 1]

\* return fmt.Errorf("no more matches to simulate"): the League as found.
noMoreMatches(lg) == lg

\* failAt = 0: every storage call succeeds; failAt = k: the k-th call fails
\* and the calls after it are not made.
SimulateNextWeek ==
  /\ mode = "server"
  /\ call' = Call("SimulateNextWeek", 0)
  /\ hist' = << >>
  /\ IF ~hasMatches(matches, currentWeek + 1)
       THEN /\ resp' = NoMoreMatches
            /\ currentWeek' = noMoreMatches(League).currentWeek
            /\ UNCHANGED <<heap, matches, leagueTable, rng, db, events>>
       ELSE \E lg \in {weeklySimulator(League)} : \E calls \in {saveWeek(lg)} :
               /\ heap' = lg.heap
               /\ matches' = lg.matches
               /\ currentWeek' = lg.currentWeek
               /\ leagueTable' = lg.leagueTable
               /\ rng' = lg.rng
               /\ \/ /\ db' = execCalls(db, calls, Len(calls))
                     /\ resp' = TableResponse
                     /\ UNCHANGED events
                  \/ /\ events < MaxEvents
                     /\ events' = events + 1
                     /\ resp' = SimulateSaveFailed
                     /\ \E failAt \in 1..Len(calls) :
                          db' = execCalls(db, calls, failAt - 1)
  /\ UNCHANGED <<mode, goroutines>>

\* The iterations of the loop of SimulateAllMatches when no storage call
\* fails: the league after weeklySimulator, the storage calls of the
\* iteration and the database after them.
RECURSIVE simulateAll(_, _, _)
simulateAll(lg, d, total) ==
  IF lg.currentWeek + 1 > total THEN << >>
  ELSE LET next == weeklySimulator(lg)
           calls == saveWeek(next)
           saved == execCalls(d, calls, Len(calls))
       IN <<[lg |-> next, calls |-> calls, before |-> d, after |-> saved]>>
          \o simulateAll(next, saved, total)

SimulateAllMatches ==
  /\ mode = "server"
  /\ call' = Call("SimulateAllMatches", 0)
  /\ hist' = << >>
  /\ \E steps \in {simulateAll(League, db, totalWeeks(matches))} :
     LET n == Len(steps)
     IN \/ /\ resp' = TableResponse
           /\ IF n = 0
                THEN UNCHANGED <<heap, matches, currentWeek, leagueTable, rng, db>>
                ELSE /\ heap' = steps[n].lg.heap
                     /\ matches' = steps[n].lg.matches
                     /\ currentWeek' = steps[n].lg.currentWeek
                     /\ leagueTable' = steps[n].lg.leagueTable
                     /\ rng' = steps[n].lg.rng
                     /\ db' = steps[n].after
           /\ UNCHANGED events
        \/ /\ events < MaxEvents
           /\ events' = events + 1
           /\ resp' = SimulateSaveFailed
           /\ \E w \in 1..n :
                /\ heap' = steps[w].lg.heap
                /\ matches' = steps[w].lg.matches
                /\ currentWeek' = steps[w].lg.currentWeek
                /\ leagueTable' = steps[w].lg.leagueTable
                /\ rng' = steps[w].lg.rng
                /\ \E failAt \in 1..Len(steps[w].calls) :
                     db' = execCalls(steps[w].before, steps[w].calls, failAt - 1)
  /\ UNCHANGED <<mode, goroutines>>

(***************************************************************************)
(* Result Correction: editMatchResultHandler.                              *)
(***************************************************************************)
\* findMatch that is left with the last match of the loop when none has the id.
findMatchLast(ms, matchId) ==
  IF \E i \in 1..Len(ms) : ms[i].MatchId = matchId
    THEN CHOOSE i \in 1..Len(ms) :
           /\ ms[i].MatchId = matchId
           /\ \A j \in 1..(i - 1) : ms[j].MatchId # matchId
    ELSE Len(ms)

\* The index of the first match with the id, 0 for targetMatch == nil.
findMatch(ms, matchId) ==
  IF \E i \in 1..Len(ms) : ms[i].MatchId = matchId
    THEN CHOOSE i \in 1..Len(ms) :
           /\ ms[i].MatchId = matchId
           /\ \A j \in 1..(i - 1) : ms[j].MatchId # matchId
    ELSE 0

\* notPlayed without the check: every match may be edited.
notPlayedIgnored(targetMatch) == FALSE

\* if !targetMatch.Played: the match cannot be edited.
notPlayed(targetMatch) == ~targetMatch.Played

\* revertResult that takes the three points of a home win from the away team.
revertResultWrongTeam(h, home, away, hs, as) ==
  LET g == [h EXCEPT ![home].GoalsFor = @ - hs,
                     ![away].GoalsFor = @ - as,
                     ![home].GoalsAgainst = @ - as,
                     ![away].GoalsAgainst = @ - hs]
  IN IF hs > as
       THEN [g EXCEPT ![home].Wins = @ - 1, ![away].Losses = @ - 1,
                      ![away].Points = @ - 3]
     ELSE IF hs < as
       THEN [g EXCEPT ![away].Wins = @ - 1, ![home].Losses = @ - 1,
                      ![away].Points = @ - 3]
     ELSE [g EXCEPT ![home].Draws = @ - 1, ![away].Draws = @ - 1,
                    ![home].Points = @ - 1, ![away].Points = @ - 1]

\* Revert old match statistics: goals, then points and match results.
revertResult(h, home, away, hs, as) ==
  LET g == [h EXCEPT ![home].GoalsFor = @ - hs,
                     ![away].GoalsFor = @ - as,
                     ![home].GoalsAgainst = @ - as,
                     ![away].GoalsAgainst = @ - hs]
  IN IF hs > as
       THEN [g EXCEPT ![home].Wins = @ - 1, ![away].Losses = @ - 1,
                      ![home].Points = @ - 3]
     ELSE IF hs < as
       THEN [g EXCEPT ![away].Wins = @ - 1, ![home].Losses = @ - 1,
                      ![away].Points = @ - 3]
     ELSE [g EXCEPT ![home].Draws = @ - 1, ![away].Draws = @ - 1,
                    ![home].Points = @ - 1, ![away].Points = @ - 1]

\* Apply new match result: goals, then points and match results.
applyResult(h, home, away, hs, as) ==
  LET g == [h EXCEPT ![home].GoalsFor = @ + hs,
                     ![away].GoalsFor = @ + as,
                     ![home].GoalsAgainst = @ + as,
                     ![away].GoalsAgainst = @ + hs]
  IN IF hs > as
       THEN [g EXCEPT ![home].Wins = @ + 1, ![away].Losses = @ + 1,
                      ![home].Points = @ + 3]
     ELSE IF hs < as
       THEN [g EXCEPT ![away].Wins = @ + 1, ![home].Losses = @ + 1,
                      ![away].Points = @ + 3]
     ELSE [g EXCEPT ![home].Draws = @ + 1, ![away].Draws = @ + 1,
                    ![home].Points = @ + 1, ![away].Points = @ + 1]

\* updateGoalDifferences that forgets the away team.
updateGoalDifferencesHomeOnly(h, home, away) ==
  [h EXCEPT ![home].GoalsDifference = h[home].GoalsFor - h[home].GoalsAgainst]

\* Update goal differences of the two teams of the match.
updateGoalDifferences(h, home, away) ==
  LET d == [h EXCEPT ![home].GoalsDifference = h[home].GoalsFor - h[home].GoalsAgainst]
  IN [d EXCEPT ![away].GoalsDifference = d[away].GoalsFor - d[away].GoalsAgainst]

\* The in-memory part of a correction of match index i to (homeScore, awayScore).
editResult(lg, i, homeScore, awayScore) ==
  LET targetMatch == lg.matches[i]
      homeTeam == targetMatch.HomeTeam
      awayTeam == targetMatch.AwayTeam
      reverted == revertResult(lg.heap, homeTeam, awayTeam,
                               targetMatch.HomeTeamScore, targetMatch.AwayTeamScore)
      applied == applyResult(reverted, homeTeam, awayTeam, homeScore, awayScore)
      h == updateGoalDifferences(applied, homeTeam, awayTeam)
  IN updateLeagueTable(
       [lg EXCEPT !.heap = h,
                  !.matches[i].HomeTeamScore = homeScore,
                  !.matches[i].AwayTeamScore = awayScore])

saveEdit(lg, i) ==
  <<SaveMatchResult(lg.heap, lg.matches[i]),
    UpdateTeam(lg.heap[lg.matches[i].HomeTeam]),
    UpdateTeam(lg.heap[lg.matches[i].AwayTeam])>>

histEntry(i, homeScore, awayScore) ==
  [id |-> matches[i].MatchId,
   old |-> <<matches[i].HomeTeamScore, matches[i].AwayTeamScore>>,
   new |-> <<homeScore, awayScore>>,
   before |-> heap]

editMatchResultHandler(matchId, homeScore, awayScore) ==
  LET i == findMatch(matches, matchId)
  IN /\ mode = "server"
     /\ call' = Call("editMatchResult", matchId)
     /\ IF i = 0
          THEN /\ resp' = MatchNotFound
               /\ hist' = << >>
               /\ UNCHANGED <<heap, matches, leagueTable, db, events>>
        ELSE IF notPlayed(matches[i])
          THEN /\ resp' = MatchNotYetPlayed
               /\ hist' = << >>
               /\ UNCHANGED <<heap, matches, leagueTable, db, events>>
        ELSE /\ events < MaxEvents
             /\ \E lg \in {editResult(League, i, homeScore, awayScore)} :
                \E calls \in {saveEdit(lg, i)} :
                   /\ heap' = lg.heap
                   /\ matches' = lg.matches
                   /\ leagueTable' = lg.leagueTable
                   /\ hist' = (IF hist = << >> THEN << >> ELSE <<hist[Len(hist)]>>)
                                \o <<histEntry(i, homeScore, awayScore)>>
                   /\ \/ /\ db' = execCalls(db, calls, Len(calls))
                         /\ resp' = TableResponse
                         /\ events' = events + 1
                      \/ /\ events + 2 <= MaxEvents
                         /\ events' = events + 2
                         /\ resp' = EditSaveFailed
                         /\ \E failAt \in 1..Len(calls) :
                              db' = execCalls(db, calls, failAt - 1)
     /\ UNCHANGED <<mode, currentWeek, rng, goroutines>>

\* The scorelines a client sends: those of EditScorelines, and the scoreline
\* the match had before the correction just made (to correct it back).
sentScorelines ==
  EditScorelines \cup (IF hist = << >> THEN {} ELSE {hist[Len(hist)].old})

EditMatchResult ==
  \E matchId \in EditIds, sl \in sentScorelines :
       editMatchResultHandler(matchId, sl[1], sl[2])

(***************************************************************************)
(* A restart of the server: initializeLeague on the database left behind.  *)
(***************************************************************************)
Restart ==
  /\ mode = "server"
  /\ events < MaxEvents
  /\ events' = events + 1
  /\ \E lg \in {initializeLeague(db)} :
        /\ heap' = lg.heap
        /\ matches' = lg.matches
        /\ currentWeek' = lg.currentWeek
        /\ leagueTable' = lg.leagueTable
  /\ rng' \in Seeds
  /\ call' = Call("initializeLeague", 0)
  /\ resp' = NoResponse
  /\ hist' = << >>
  /\ UNCHANGED <<mode, db, goroutines>>

Next ==
  \/ PlaySeasonWeek
  \/ SimulateNextWeek
  \/ SimulateAllMatches
  \/ EditMatchResult
  \/ Restart

Spec == Init /\ [][Next]_vars

\* The operations on one League from its creation on, the process never
\* restarted.
NextSequential ==
  \/ PlaySeasonWeek
  \/ SimulateNextWeek
  \/ SimulateAllMatches
  \/ EditMatchResult

SpecSequential == Init /\ [][NextSequential]_vars

\* A fresh server that receives POST /league/next-week and
\* PUT /league/matches/{id} only, one request after the other: there the
\* week counter is the number of the next-week requests not refused.
InitAdvance ==
  /\ InitServer
  /\ rng \in Seeds
  /\ call = Call("start", 0)
  /\ resp = NoResponse
  /\ hist = << >>
  /\ events = 0
  /\ goroutines = NoRequests

NextAdvance ==
  \/ SimulateNextWeek
  \/ EditMatchResult

SpecAdvance == InitAdvance /\ [][NextAdvance]_vars

(***************************************************************************)
(* The functions of main.go one call at a time, on the League main builds: *)
(* simulateMatch on one match and updateLeagueTable.  The generator starts *)
(* in any state, and the strength ratings of the two teams of match 1 are  *)
(* drawn from ratings below, inside and above the range 0..100.            *)
(***************************************************************************)
\* UnitMatches: simulateMatch is called on the first UnitMatches matches.
UnitMatches == 2

Strengths == {-50, 80, 85, 200}

InitUnits ==
  /\ mode = "console"
  /\ \E home, away \in Strengths :
        heap = [createPremierLeagueTeams EXCEPT ![1].TeamStrength = home,
                                                ![2].TeamStrength = away]
  /\ matches = createPremierLeagueMatches(leagueTeams)
  /\ currentWeek = 0
  /\ leagueTable = << >>
  /\ db = noDb
  /\ rng \in 0..(RandMod - 1)
  /\ call = Call("start", 0)
  /\ resp = NoResponse
  /\ hist = << >>
  /\ events = 0
  /\ goroutines = NoRequests

\* simulateMatch(league.Matches[i]); hist records whether the match was
\* played when the call was made.
CallSimulateMatch(i) ==
  /\ \E st \in {simulateMatch([heap |-> heap, matches |-> matches, rng |-> rng], i)} :
        /\ heap' = st.heap
        /\ matches' = st.matches
        /\ rng' = st.rng
  /\ call' = Call("simulateMatch", matches[i].MatchId)
  /\ resp' = NoResponse
  /\ hist' = <<[played |-> matches[i].Played]>>
  /\ UNCHANGED <<mode, currentWeek, leagueTable, db, events, goroutines>>

\* updateLeagueTable(league); hist records the tables of the last two calls
\* made with no other call in between.
CallUpdateLeagueTable ==
  /\ \E lg \in {updateLeagueTable(League)} :
        /\ heap' = lg.heap
        /\ matches' = lg.matches
        /\ currentWeek' = lg.currentWeek
        /\ leagueTable' = lg.leagueTable
        /\ rng' = lg.rng
        /\ hist' = (IF call.op = "updateLeagueTable"
                      THEN <<hist[Len(hist)]>> ELSE << >>) \o <<lg.leagueTable>>
  /\ call' = Call("updateLeagueTable", 0)
  /\ resp' = NoResponse
  /\ UNCHANGED <<mode, db, events, goroutines>>

NextUnits ==
  \/ \E i \in 1..UnitMatches : CallSimulateMatch(i)
  \/ CallUpdateLeagueTable

SpecUnits == InitUnits /\ [][NextUnits]_vars

(***************************************************************************)
(* predictChampionship on the Leagues a season goes through, as playSeason *)
(* calls it: after the table has been built.  The teams have the strength  *)
(* ratings of the program, or all the rating 0, with which no team has a   *)
(* weight before the first match.                                          *)
(***************************************************************************)
PredictStrengths == {TeamStrengths, <<0, 0, 0, 0>>}

InitPredict ==
  /\ mode = "console"
  /\ \E strengths \in PredictStrengths :
        heap = [r \in DOMAIN createPremierLeagueTeams |->
                  [createPremierLeagueTeams[r] EXCEPT !.TeamStrength = strengths[r]]]
  /\ matches = createPremierLeagueMatches(leagueTeams)
  /\ currentWeek = 0
  /\ leagueTable = << >>
  /\ db = noDb
  /\ rng \in 0..(RandMod - 1)
  /\ call = Call("start", 0)
  /\ resp = NoResponse
  /\ hist = << >>
  /\ events = 0
  /\ goroutines = NoRequests

\* predictions := predictChampionship(league); hist records the predictions.
CallPredictChampionship ==
  /\ leagueTable # << >>
  /\ call' = Call("predictChampionship", 0)
  /\ resp' = NoResponse
  /\ hist' = <<predictChampionship(League)>>
  /\ UNCHANGED <<mode, heap, matches, currentWeek, leagueTable, rng, db, events,
                 goroutines>>

NextPredict ==
  \/ PlaySeasonWeek
  \/ CallUpdateLeagueTable
  \/ CallPredictChampionship

SpecPredict == InitPredict /\ [][NextPredict]_vars

(***************************************************************************)
(* The HTTP server with requests in flight at the same time.  No handler   *)
(* takes a lock, so the statements of the handlers interleave on           *)
(* globalLeague.  A step is one access to the League: the test for a next  *)
(* week, the load and the store of league.CurrentWeek++, the test that     *)
(* finds the next due match, the body of simulateMatch, the four parts of  *)
(* updateLeagueTable, the storage calls with the response, and the read of *)
(* GET /league/table.  A goroutine serves one request.                     *)
(***************************************************************************)
Requests == {"SimulateNextWeek", "getLeagueTable"}

At(g, op, pc) == goroutines[g].op = op /\ goroutines[g].pc = pc

league_ == <<heap, matches, currentWeek, leagueTable, rng>>
client_ == <<mode, call, resp, hist, events>>

InitConcurrent ==
  /\ InitServer
  /\ rng \in Seeds
  /\ call = Call("start", 0)
  /\ resp = NoResponse
  /\ hist = << >>
  /\ events = 0
  /\ goroutines = NoRequests

\* The router hands a request to its handler in a new goroutine.
Serve(g, op) ==
  /\ goroutines[g].pc = "idle"
  /\ goroutines' = [goroutines EXCEPT ![g] = Goroutine(op, "handler", 0, 0, << >>)]
  /\ UNCHANGED <<league_, db, client_>>

\* getLeagueTableHandler: encodes globalLeague.LeagueTable as it is now.
GetLeagueTable(g) ==
  /\ At(g, "getLeagueTable", "handler")
  /\ goroutines' = [goroutines EXCEPT ![g].table = leagueTable, ![g].pc = "done"]
  /\ UNCHANGED <<league_, db, client_>>

\* SimulateNextWeek: the search for an unplayed match of CurrentWeek + 1.
CheckNextWeek(g) ==
  /\ At(g, "SimulateNextWeek", "handler")
  /\ goroutines' = [goroutines EXCEPT
        ![g].pc = IF hasMatches(matches, currentWeek + 1) THEN "load" ELSE "refused"]
  /\ UNCHANGED <<league_, db, client_>>

\* league.CurrentWeek++ reads the counter ...
LoadCurrentWeek(g) ==
  /\ At(g, "SimulateNextWeek", "load")
  /\ goroutines' = [goroutines EXCEPT ![g].week = currentWeek, ![g].pc = "store"]
  /\ UNCHANGED <<league_, db, client_>>

\* ... and writes the value it read, plus one.
StoreCurrentWeek(g) ==
  /\ At(g, "SimulateNextWeek", "store")
  /\ currentWeek' = goroutines[g].week + 1
  /\ goroutines' = [goroutines EXCEPT ![g].i = 1, ![g].pc = "loop"]
  /\ UNCHANGED <<heap, matches, leagueTable, rng, db, client_>>

\* The loop of weeklySimulator up to the next match of league.CurrentWeek
\* that is not played: simulateMatch is entered and finds it not played.
NextDueMatch(g) ==
  /\ At(g, "SimulateNextWeek", "loop")
  /\ LET due == {j \in goroutines[g].i..Len(matches) :
                    matches[j].Week = currentWeek /\ ~alreadyPlayed(matches[j])}
     IN goroutines' =
          IF due = {} THEN [goroutines EXCEPT ![g].pc = "reset"]
          ELSE [goroutines EXCEPT
                  ![g].i = CHOOSE j \in due : \A k \in due : j <= k,
                  ![g].pc = "simulate"]
  /\ UNCHANGED <<league_, db, client_>>

\* The rest of simulateMatch, after its test of match.Played.
PlayDueMatch(g) ==
  /\ At(g, "SimulateNextWeek", "simulate")
  /\ LET i == goroutines[g].i
     IN \E st \in {simulateMatch([heap |-> heap,
                                   matches |-> [matches EXCEPT ![i].Played = FALSE],
                                   rng |-> rng], i)} :
          /\ heap' = st.heap
          /\ matches' = st.matches
          /\ rng' = st.rng
  /\ goroutines' = [goroutines EXCEPT ![g].i = @ + 1, ![g].pc = "loop"]
  /\ UNCHANGED <<currentWeek, leagueTable, db, client_>>

\* updateLeagueTable, first statement: the table is emptied.
ResetTable(g) ==
  /\ At(g, "SimulateNextWeek", "reset")
  /\ leagueTable' = resetLeagueTable(League).leagueTable
  /\ goroutines' = [goroutines EXCEPT ![g].pc = "append"]
  /\ UNCHANGED <<heap, matches, currentWeek, rng, db, client_>>

\* updateLeagueTable, the loop that appends one entry per team.
AppendTable(g) ==
  /\ At(g, "SimulateNextWeek", "append")
  /\ leagueTable' = appendEntries(League, 1).leagueTable
  /\ goroutines' = [goroutines EXCEPT ![g].pc = "sort"]
  /\ UNCHANGED <<heap, matches, currentWeek, rng, db, client_>>

\* updateLeagueTable, the sort.
SortTable(g) ==
  /\ At(g, "SimulateNextWeek", "sort")
  /\ leagueTable' = sortLeagueTable(League).leagueTable
  /\ goroutines' = [goroutines EXCEPT ![g].pc = "positions"]
  /\ UNCHANGED <<heap, matches, currentWeek, rng, db, client_>>

\* updateLeagueTable, the loop that numbers the entries.
PositionTable(g) ==
  /\ At(g, "SimulateNextWeek", "positions")
  /\ leagueTable' = assignPositions(League).leagueTable
  /\ goroutines' = [goroutines EXCEPT ![g].pc = "save"]
  /\ UNCHANGED <<heap, matches, currentWeek, rng, db, client_>>

\* The storage calls of SimulateNextWeek, none failing, and the response of
\* simulateNextWeekHandler: globalLeague.LeagueTable as it is now.
SaveAndRespond(g) ==
  /\ At(g, "SimulateNextWeek", "save")
  /\ \E calls \in {saveWeek(League)} : db' = execCalls(db, calls, Len(calls))
  /\ goroutines' = [goroutines EXCEPT ![g].table = leagueTable, ![g].pc = "done"]
  /\ UNCHANGED <<league_, client_>>

NextConcurrent ==
  \E g \in Goroutines :
    \/ \E op \in Requests : Serve(g, op)
    \/ GetLeagueTable(g)
    \/ CheckNextWeek(g)
    \/ LoadCurrentWeek(g)
    \/ StoreCurrentWeek(g)
    \/ NextDueMatch(g)
    \/ PlayDueMatch(g)
    \/ ResetTable(g)
    \/ AppendTable(g)
    \/ SortTable(g)
    \/ PositionTable(g)
    \/ SaveAndRespond(g)

SpecConcurrent == InitConcurrent /\ [][NextConcurrent]_vars

(***************************************************************************)
(* Definitions the properties share.                                       *)
(***************************************************************************)
\* The competitors of the League: the Team objects of league.Teams.
Competitors == {leagueTeams[i] : i \in 1..Len(leagueTeams)}

Ledger(t) ==
  [GoalsFor |-> t.GoalsFor, GoalsAgainst |-> t.GoalsAgainst, Wins |-> t.Wins,
   Draws |-> t.Draws, Losses |-> t.Losses, Points |-> t.Points]

involves(m, id) ==
  heap[m.HomeTeam].TeamId = id \/ heap[m.AwayTeam].TeamId = id

\* The ledger of team id recomputed from the first i matches: every played
\* match counts once, with the scoreline it records now.
RECURSIVE LedgerFromMatches(_, _)
LedgerFromMatches(id, i) ==
  IF i = 0
    THEN [GoalsFor |-> 0, GoalsAgainst |-> 0, Wins |-> 0, Draws |-> 0,
          Losses |-> 0, Points |-> 0]
  ELSE LET prev == LedgerFromMatches(id, i - 1)
           m == matches[i]
           isHome == heap[m.HomeTeam].TeamId = id
           own == IF isHome THEN m.HomeTeamScore ELSE m.AwayTeamScore
           other == IF isHome THEN m.AwayTeamScore ELSE m.HomeTeamScore
       IN IF ~m.Played \/ ~involves(m, id) THEN prev
          ELSE [GoalsFor |-> prev.GoalsFor + own,
                GoalsAgainst |-> prev.GoalsAgainst + other,
                Wins |-> prev.Wins + (IF own > other THEN 1 ELSE 0),
                Draws |-> prev.Draws + (IF own = other THEN 1 ELSE 0),
                Losses |-> prev.Losses + (IF own < other THEN 1 ELSE 0),
                Points |-> prev.Points + (IF own > other THEN 3
                                          ELSE IF own = other THEN 1 ELSE 0)]

PlayedMatchesOf(id) ==
  {i \in 1..Len(matches) : matches[i].Played /\ involves(matches[i], id)}

MatchWithId(matchId) == {i \in 1..Len(matches) : matches[i].MatchId = matchId}

InMemoryUnchanged == UNCHANGED <<heap, matches, currentWeek, leagueTable>>

(***************************************************************************)
(* C1: every competitor's goals for, goals against, wins, draws, losses    *)
(* and points equal the values recomputed from scratch over the matches    *)
(* marked played, with the scorelines they record now.                     *)
(***************************************************************************)
C1_LedgerEqualsRecomputation ==
  \A t \in Competitors :
    Ledger(heap[t]) = LedgerFromMatches(heap[t].TeamId, Len(matches))

(***************************************************************************)
(* C2: correcting a match to a new scoreline and then back to the          *)
(* scoreline it had, with nothing in between, restores the statistics of   *)
(* every team, goal difference included, to their values before the first  *)
(* correction.                                                             *)
(***************************************************************************)
RoundTripDone ==
  /\ Len(hist) = 2
  /\ hist[1].id = hist[2].id
  /\ hist[2].new = hist[1].old

C2_CorrectionRoundTrip == RoundTripDone => heap = hist[1].before

C2_Witness ==
  /\ RoundTripDone
  /\ hist[1].new # hist[1].old
  /\ hist[1].old[1] > hist[1].old[2]
  /\ hist[1].new[1] <= hist[1].new[2]
  /\ heap # hist[2].before

(***************************************************************************)
(* C3: for every competitor, points = 3 * wins + draws.                    *)
(***************************************************************************)
C3_PointsFromResults ==
  \A r \in DOMAIN heap : heap[r].Points = 3 * heap[r].Wins + heap[r].Draws

C3_Witness ==
  /\ call.op = "editMatchResult"
  /\ resp = TableResponse
  /\ \E r \in DOMAIN heap : heap[r].Wins > 0 /\ heap[r].Draws > 0

(***************************************************************************)
(* C4: for every competitor, the stored goal difference equals goals for   *)
(* minus goals against.                                                    *)
(***************************************************************************)
C4_GoalDifferenceStored ==
  \A r \in DOMAIN heap :
    heap[r].GoalsDifference = heap[r].GoalsFor - heap[r].GoalsAgainst

C4_Witness ==
  /\ call.op = "editMatchResult"
  /\ resp = TableResponse
  /\ \E r \in DOMAIN heap : heap[r].GoalsDifference < 0
  /\ \E r \in DOMAIN heap : heap[r].GoalsDifference > 0

(***************************************************************************)
(* C5: for every competitor of the League, wins + draws + losses equals    *)
(* the number of played matches in which it is the home or the away side.  *)
(***************************************************************************)
C5_ResultsCountPlayedMatches ==
  \A t \in Competitors :
    heap[t].Wins + heap[t].Draws + heap[t].Losses
      = Cardinality(PlayedMatchesOf(heap[t].TeamId))

(***************************************************************************)
(* C6: the home and the away reference of every match denote two distinct  *)
(* members of the League's own competitor set, not copies of them.         *)
(***************************************************************************)
C6_MatchesShareLeagueTeams ==
  \A i \in 1..Len(matches) :
    /\ matches[i].HomeTeam \in Competitors
    /\ matches[i].AwayTeam \in Competitors
    /\ matches[i].HomeTeam # matches[i].AwayTeam

(***************************************************************************)
(* C7: a correction of a match that exists and is not played fails with    *)
(* "Cannot edit unplayed match" and changes no team statistics, no match,  *)
(* not the week counter and not the league table.                          *)
(***************************************************************************)
C7_UnplayedCorrectionRejected ==
  [][(/\ call'.op = "editMatchResult"
      /\ \E i \in MatchWithId(call'.id) : ~matches[i].Played)
     => (resp' = MatchNotYetPlayed /\ InMemoryUnchanged)]_vars

C7_Witness ==
  /\ call.op = "editMatchResult"
  /\ resp = MatchNotYetPlayed
  /\ currentWeek > 0
  /\ \E i \in MatchWithId(call.id) : ~matches[i].Played

(***************************************************************************)
(* C8: a correction with an id that no match has fails with "Match not     *)
(* found" and changes no team statistics, no match, not the week counter   *)
(* and not the league table.                                               *)
(***************************************************************************)
C8_UnknownMatchRejected ==
  [][(call'.op = "editMatchResult" /\ MatchWithId(call'.id) = {})
     => (resp' = MatchNotFound /\ InMemoryUnchanged)]_vars

C8_Witness ==
  /\ call.op = "editMatchResult"
  /\ resp = MatchNotFound
  /\ currentWeek > 0
  /\ MatchWithId(call.id) = {}

(***************************************************************************)
(* C9: SimulateNextWeek with no unplayed match at week currentWeek + 1     *)
(* fails with "no more matches to simulate" and changes nothing: not the   *)
(* week counter, no match, no team statistics and not the league table.    *)
(***************************************************************************)
C9_NoMoreMatchesMutatesNothing ==
  [][(/\ call'.op = "SimulateNextWeek"
      /\ ~\E i \in 1..Len(matches) :
            matches[i].Week = currentWeek + 1 /\ ~matches[i].Played)
     => (resp' = NoMoreMatches /\ InMemoryUnchanged)]_vars

C9_Witness ==
  /\ call.op = "SimulateNextWeek"
  /\ resp = NoMoreMatches
  /\ \A i \in 1..Len(matches) : matches[i].Played

(***************************************************************************)
(* C10: a successful SimulateNextWeek increases the week counter by one    *)
(* and marks played exactly the unplayed matches of the new week, two of   *)
(* them; no other match changes its played flag or its scoreline.          *)
(***************************************************************************)
DueMatches(week) ==
  {i \in 1..Len(matches) : matches[i].Week = week /\ ~matches[i].Played}

C10_AdvancePlaysTheNewWeek ==
  [][(call'.op = "SimulateNextWeek" /\ resp' = TableResponse)
     => (/\ currentWeek' = currentWeek + 1
         /\ Cardinality(DueMatches(currentWeek')) = 2
         /\ Len(matches') = Len(matches)
         /\ \A i \in 1..Len(matches) :
              IF i \in DueMatches(currentWeek')
                THEN /\ matches'[i].Played
                     /\ matches'[i].MatchId = matches[i].MatchId
                     /\ matches'[i].Week = matches[i].Week
                ELSE matches'[i] = matches[i])]_vars

(***************************************************************************)
(* C11: a successful SimulateAllMatches from week 0 leaves a league table  *)
(* of exactly 4 entries, every entry with Played = 6, in which each of the *)
(* positions 1, 2, 3, 4 is assigned to exactly one entry.                  *)
(***************************************************************************)
MatchesPerTeam == 2 * (NumTeams - 1)

C11_CompletionFillsTheTable ==
  [][(/\ call'.op = "SimulateAllMatches"
      /\ resp' = TableResponse
      /\ currentWeek = 0)
     => (/\ Len(leagueTable') = NumTeams
         /\ \A i \in 1..Len(leagueTable') : leagueTable'[i].Played = MatchesPerTeam
         /\ \A p \in 1..NumTeams :
              Cardinality({i \in 1..Len(leagueTable') :
                             leagueTable'[i].Position = p}) = 1)]_vars

(***************************************************************************)
(* Definitions the properties of the league table share.                   *)
(***************************************************************************)
Entries == {leagueTable[i] : i \in 1..Len(leagueTable)}

Tied(a, b) == a.Points = b.Points /\ a.GoalsDifference = b.GoalsDifference

\* The table the last call of updateLeagueTable built has moved a team up.
TableBuiltAndReordered ==
  /\ call.op = "updateLeagueTable"
  /\ Len(leagueTable) = NumTeams
  /\ leagueTable[1].TeamName # TeamNames[1]

(***************************************************************************)
(* C12: in every table updateLeagueTable builds, an entry with strictly    *)
(* more points than another has the smaller position, and of two entries   *)
(* with equal points the one with the strictly higher goal difference has  *)
(* the smaller position.                                                   *)
(***************************************************************************)
C12_TableOrdered ==
  \A a, b \in Entries :
    /\ a.Points > b.Points => a.Position < b.Position
    /\ (a.Points = b.Points /\ a.GoalsDifference > b.GoalsDifference)
         => a.Position < b.Position

C12_Witness ==
  /\ TableBuiltAndReordered
  /\ \E a, b \in Entries : a.Points > b.Points
  /\ \E i, j \in 1..Len(leagueTable) :
        /\ i < j
        /\ leagueTable[i].Points = leagueTable[j].Points
        /\ leagueTable[i].GoalsDifference > leagueTable[j].GoalsDifference
        /\ \E k, l \in 1..NumTeams :
              /\ k > l
              /\ TeamNames[k] = leagueTable[i].TeamName
              /\ TeamNames[l] = leagueTable[j].TeamName

(***************************************************************************)
(* C13: in every table updateLeagueTable builds, two teams with equal      *)
(* points and equal goal difference stand in the order they have in        *)
(* league.Teams.                                                           *)
(***************************************************************************)
EntryOf(i) == CHOOSE e \in Entries : e.TeamName = heap[leagueTeams[i]].TeamName

C13_TiesKeepInputOrder ==
  leagueTable # << >> =>
    \A i, j \in 1..Len(leagueTeams) :
      (i < j /\ Tied(EntryOf(i), EntryOf(j)))
        => EntryOf(i).Position < EntryOf(j).Position

C13_Witness ==
  /\ TableBuiltAndReordered
  /\ \E i, j \in 1..Len(leagueTeams) :
        /\ i < j
        /\ Tied(EntryOf(i), EntryOf(j))
        /\ EntryOf(i).Points > 0
        /\ EntryOf(i).Position < EntryOf(j).Position

(***************************************************************************)
(* C14: two calls of updateLeagueTable in a row, with no change of a team  *)
(* record in between, build two tables that are equal in every field of    *)
(* every entry, order and positions included.                              *)
(***************************************************************************)
BuiltTwice == call.op = "updateLeagueTable" /\ Len(hist) = 2

C14_BuilderIdempotent ==
  BuiltTwice => (hist[1] = hist[2] /\ leagueTable = hist[2])

C14_Witness ==
  /\ BuiltTwice
  /\ TableBuiltAndReordered
  /\ \E a, b \in Entries : a.Points > b.Points /\ a.GoalsFor > 0

(***************************************************************************)
(* C15: a call of updateLeagueTable changes the league table only: every   *)
(* team record, every match and the week counter are left as they were.    *)
(***************************************************************************)
C15_BuilderChangesTheTableOnly ==
  [][call'.op = "updateLeagueTable"
     => UNCHANGED <<heap, matches, currentWeek>>]_vars

C15_Witness ==
  /\ call.op = "updateLeagueTable"
  /\ Len(hist) = 1
  /\ Len(leagueTable) = NumTeams
  /\ \E i \in 1..Len(matches) : matches[i].Played
  /\ \E r \in DOMAIN heap : heap[r].Points > 0
  /\ \E e \in Entries : e.Points > 0 /\ e.Position > 1

(***************************************************************************)
(* Definitions the properties of the schedule share.                       *)
(***************************************************************************)
HomeId(m) == heap[m.HomeTeam].TeamId
AwayId(m) == heap[m.AwayTeam].TeamId

MatchIndexes == 1..Len(matches)
Weeks == {matches[i].Week : i \in MatchIndexes}
MatchesOfWeek(w) == {i \in MatchIndexes : matches[i].Week = w}

\* The schedule is the one createPremierLeagueMatches returned: no match of
\* it has been played.
ScheduleAsGenerated ==
  /\ call.op = "start"
  /\ matches # << >>
  /\ \A i \in MatchIndexes : ~matches[i].Played

(***************************************************************************)
(* C16: in the schedule of createPremierLeagueMatches every team is in     *)
(* exactly 6 matches, in exactly 3 as the home and in exactly 3 as the     *)
(* away team, and in every week every team is in exactly one match.        *)
(***************************************************************************)
C16_EveryTeamOncePerWeek ==
  \A id \in TeamIds :
    /\ Cardinality({i \in MatchIndexes : involves(matches[i], id)}) = MatchesPerTeam
    /\ Cardinality({i \in MatchIndexes : HomeId(matches[i]) = id}) = NumTeams - 1
    /\ Cardinality({i \in MatchIndexes : AwayId(matches[i]) = id}) = NumTeams - 1
    /\ \A w \in Weeks :
         Cardinality({i \in MatchesOfWeek(w) : involves(matches[i], id)}) = 1

C16_Witness ==
  /\ ScheduleAsGenerated
  /\ Cardinality(Weeks) = MatchesPerTeam
  /\ \A w \in Weeks :
        {HomeId(matches[i]) : i \in MatchesOfWeek(w)}
          \cup {AwayId(matches[i]) : i \in MatchesOfWeek(w)} = TeamIds

(***************************************************************************)
(* C17: createPremierLeagueMatches returns exactly 12 matches in the weeks *)
(* 1 to 6, two in each week; every ordered pair (home, away) of distinct   *)
(* teams is the pairing of exactly one match; and the matches of week      *)
(* w + 3, for w in 1..3, are those of week w with home and away swapped.   *)
(***************************************************************************)
Pairing(i) == <<HomeId(matches[i]), AwayId(matches[i])>>
Swapped(i) == <<AwayId(matches[i]), HomeId(matches[i])>>

C17_DoubleRoundRobin ==
  /\ Len(matches) = NumTeams * (NumTeams - 1)
  /\ Weeks = 1..MatchesPerTeam
  /\ \A w \in Weeks : Cardinality(MatchesOfWeek(w)) = NumTeams \div 2
  /\ \A h, a \in TeamIds :
        h # a => Cardinality({i \in MatchIndexes : Pairing(i) = <<h, a>>}) = 1
  /\ \A w \in 1..(NumTeams - 1) :
        {Pairing(i) : i \in MatchesOfWeek(w + NumTeams - 1)}
          = {Swapped(i) : i \in MatchesOfWeek(w)}

C17_Witness ==
  /\ ScheduleAsGenerated
  /\ \E i, j \in MatchIndexes :
        /\ matches[i].Week = 1
        /\ matches[j].Week = NumTeams
        /\ Pairing(j) = Swapped(i)
        /\ matches[j].MatchId = matches[i].MatchId + NumTeams + NumTeams \div 2

(***************************************************************************)
(* Definitions the properties of simulateMatch share.                      *)
(***************************************************************************)
\* The last call was simulateMatch on a match that was, or was not, played.
SimulateMatchCalled(played) ==
  /\ call.op = "simulateMatch"
  /\ hist = <<[played |-> played]>>

\* What a match with own goals against other goals adds to a ledger.
ResultOf(own, other) ==
  [GoalsFor |-> own, GoalsAgainst |-> other,
   Wins |-> IF own > other THEN 1 ELSE 0,
   Draws |-> IF own = other THEN 1 ELSE 0,
   Losses |-> IF own < other THEN 1 ELSE 0,
   Points |-> IF own > other THEN 3 ELSE IF own = other THEN 1 ELSE 0]

Plus(l, d) ==
  [GoalsFor |-> l.GoalsFor + d.GoalsFor,
   GoalsAgainst |-> l.GoalsAgainst + d.GoalsAgainst,
   Wins |-> l.Wins + d.Wins, Draws |-> l.Draws + d.Draws,
   Losses |-> l.Losses + d.Losses, Points |-> l.Points + d.Points]

(***************************************************************************)
(* C18: simulateMatch on a match that is marked played does nothing: the   *)
(* scoreline and the played flag of the match and the statistics of both   *)
(* teams stay as they were, and no error is raised.                        *)
(***************************************************************************)
C18_PlayedMatchIsNotReplayed ==
  [][(/\ call'.op = "simulateMatch"
      /\ \E i \in MatchWithId(call'.id) : matches[i].Played)
     => (resp' = NoResponse /\ InMemoryUnchanged)]_vars

C18_Witness ==
  /\ SimulateMatchCalled(TRUE)
  /\ \E i \in MatchWithId(call.id) :
        /\ matches[i].Played
        /\ matches[i].HomeTeamScore # matches[i].AwayTeamScore

(***************************************************************************)
(* C19: when simulateMatch plays a match with the scoreline (h, a), the    *)
(* home team gets +1 win and +3 points and the away team +1 loss if h > a, *)
(* the away team gets +1 win and +3 points and the home team +1 loss if    *)
(* h < a, both get +1 draw and +1 point if h = a, and nothing else of      *)
(* wins, draws, losses and points changes; goals for and goals against of  *)
(* each team grow by its own and by the other team's goals.                *)
(***************************************************************************)
C19_OneOutcomeApplied ==
  [][(/\ call'.op = "simulateMatch"
      /\ \E i \in MatchWithId(call'.id) : ~matches[i].Played)
     => \A i \in MatchWithId(call'.id) :
          LET h == matches'[i].HomeTeamScore
              a == matches'[i].AwayTeamScore
              home == matches[i].HomeTeam
              away == matches[i].AwayTeam
          IN /\ matches'[i].Played
             /\ Ledger(heap'[home]) = Plus(Ledger(heap[home]), ResultOf(h, a))
             /\ Ledger(heap'[away]) = Plus(Ledger(heap[away]), ResultOf(a, h))]_vars

C19_Witness ==
  /\ SimulateMatchCalled(FALSE)
  /\ \E i, j \in MatchIndexes :
        /\ matches[i].Played /\ matches[j].Played
        /\ matches[i].HomeTeamScore < matches[i].AwayTeamScore
        /\ matches[j].HomeTeamScore = matches[j].AwayTeamScore
        /\ heap[matches[i].AwayTeam].Points = 3
        /\ heap[matches[j].AwayTeam].Points = 1

(***************************************************************************)
(* C20: the home goals and the away goals simulateMatch records are each   *)
(* in 0..6, for all strength ratings of the two teams and every value of   *)
(* the random noise.                                                       *)
(***************************************************************************)
C20_GoalsInRange ==
  \A i \in MatchIndexes :
    matches[i].Played =>
      /\ matches[i].HomeTeamScore \in 0..MaxGoals
      /\ matches[i].AwayTeamScore \in 0..MaxGoals

C20_Witness ==
  /\ SimulateMatchCalled(FALSE)
  /\ \E i \in MatchWithId(call.id) :
        /\ heap[matches[i].HomeTeam].TeamStrength > Scale
        /\ heap[matches[i].AwayTeam].TeamStrength < 0
        /\ matches[i].HomeTeamScore = MaxGoals
        /\ matches[i].AwayTeamScore = 0

(***************************************************************************)
(* Definitions the properties of concurrent requests share.                *)
(***************************************************************************)
Answered(g) == goroutines[g].pc \in {"done", "refused"}

Quiescent == \A g \in Goroutines : goroutines[g].pc \in {"idle", "done", "refused"}

Advances ==
  {g \in Goroutines : goroutines[g].op = "SimulateNextWeek" /\ goroutines[g].pc = "done"}

MatchTeams ==
  {matches[i].HomeTeam : i \in 1..Len(matches)}
    \cup {matches[i].AwayTeam : i \in 1..Len(matches)}

(***************************************************************************)
(* C21: requests that advance the week, served at the same time, leave     *)
(* what they would leave served one after another: once all are answered,  *)
(* the week counter is the number of advances, exactly the matches of      *)
(* those weeks are played, every team of the matches has the statistics    *)
(* of its played matches counted once each, and the table has one entry    *)
(* per team.                                                               *)
(***************************************************************************)
C21_AdvancesAreSerialised ==
  (Quiescent /\ Advances # {}) =>
    /\ currentWeek = Cardinality(Advances)
    /\ \A i \in 1..Len(matches) :
         matches[i].Played <=> matches[i].Week <= Cardinality(Advances)
    /\ \A t \in MatchTeams :
         Ledger(heap[t]) = LedgerFromMatches(heap[t].TeamId, Len(matches))
    /\ Len(leagueTable) = NumTeams

(***************************************************************************)
(* C22: a read of the league table served while a request advances the     *)
(* week returns a complete table: one entry per team, the positions        *)
(* 1..NumTeams given once each, never the emptied or the half-built table. *)
(***************************************************************************)
CompleteTable(table) ==
  /\ Len(table) = NumTeams
  /\ {table[i].TeamName : i \in 1..Len(table)}
       = {TeamNames[id] : id \in TeamIds}
  /\ \A i \in 1..Len(table) : table[i].Position = i

C22_ReadsSeeCompleteTables ==
  \A g \in Goroutines :
    (goroutines[g].op = "getLeagueTable" /\ goroutines[g].pc = "done")
      => CompleteTable(goroutines[g].table)

(***************************************************************************)
(* Definitions the properties of persistence share.                        *)
(***************************************************************************)
MutatingOps == {"SimulateNextWeek", "SimulateAllMatches", "editMatchResult"}

PersistedWeekAgrees == db.week = currentWeek

PersistedMatchesAgree ==
  \A i \in 1..Len(matches) :
    LET row == db.matches[matches[i].MatchId]
    IN /\ row.played = matches[i].Played
       /\ row.home_score = matches[i].HomeTeamScore
       /\ row.away_score = matches[i].AwayTeamScore

PersistedTeamsAgree ==
  \A t \in Competitors :
    /\ Ledger(db.teams[heap[t].TeamId]) = Ledger(heap[t])
    /\ db.teams[heap[t].TeamId].GoalsDifference = heap[t].GoalsDifference

(***************************************************************************)
(* C23: when SimulateNextWeek, SimulateAllMatches or a correction answers  *)
(* with success, the database agrees with the League in memory: the same   *)
(* current week, the same played flag and scoreline of every match, and    *)
(* for every team of league.Teams the same statistics.                     *)
(***************************************************************************)
C23_SuccessMeansPersisted ==
  (mode = "server" /\ call.op \in MutatingOps /\ resp.status = StatusOK) =>
    /\ PersistedWeekAgrees
    /\ PersistedMatchesAgree
    /\ PersistedTeamsAgree

(***************************************************************************)
(* C24: when a storage call fails in SimulateNextWeek, SimulateAllMatches  *)
(* or a correction, the answer is an error, and the League in memory keeps *)
(* what the operation did before the call: the advanced week with its      *)
(* matches played, or the corrected scoreline, with the statistics and the *)
(* rebuilt table.                                                          *)
(***************************************************************************)
StorageCallFails ==
  \/ call'.op \in {"SimulateNextWeek", "SimulateAllMatches"} /\ events' = events + 1
  \/ call'.op = "editMatchResult" /\ events' = events + 2

MemoryBecomes(lg) ==
  /\ heap' = lg.heap
  /\ matches' = lg.matches
  /\ currentWeek' = lg.currentWeek
  /\ leagueTable' = lg.leagueTable

WeeksKept ==
  /\ currentWeek' > currentWeek
  /\ \A i \in 1..Len(matches) :
       matches[i].Week \in (currentWeek + 1)..currentWeek' => matches'[i].Played
  /\ \A i \in 1..Len(leagueTable') :
       \E t \in Competitors :
         leagueTable'[i] = [tableEntry(heap'[t]) EXCEPT !.Position = i]

C24_FailedSaveKeepsTheMutation ==
  [][StorageCallFails =>
       /\ resp'.status # StatusOK
       /\ call'.op = "SimulateNextWeek" => MemoryBecomes(weeklySimulator(League))
       /\ call'.op = "SimulateAllMatches" => WeeksKept
       /\ call'.op = "editMatchResult" =>
            \E i \in MatchWithId(call'.id) :
              MemoryBecomes(editResult(League, i, hist'[Len(hist')].new[1],
                                       hist'[Len(hist')].new[2]))]_vars

C24_Witness ==
  /\ call.op \in MutatingOps
  /\ resp \in {SimulateSaveFailed, EditSaveFailed}
  /\ ~(PersistedWeekAgrees /\ PersistedMatchesAgree)
  /\ \E i \in 1..Len(matches) : matches[i].Played

(***************************************************************************)
(* C25: predictChampionship returns one percentage for every team of the   *)
(* League, and the percentages add up to 100: each is the team's weight    *)
(* over the sum of the weights, times 100, when that sum is not zero, and  *)
(* all are equal when it is zero.                                          *)
(***************************************************************************)
Predicted == call.op = "predictChampionship"

Predictions == hist[1]

RECURSIVE SumOver(_, _)
SumOver(f, S) ==
  IF S = {} THEN 0
  ELSE LET x == CHOOSE x \in S : TRUE IN f[x] + SumOver(f, S \ {x})

EntryNamed(name) == CHOOSE e \in Entries : e.TeamName = name

TableWeights == [name \in DOMAIN Predictions |-> weight(League, EntryNamed(name))]

C25_PercentagesSumTo100 ==
  Predicted =>
    /\ DOMAIN Predictions = {heap[t].TeamName : t \in Competitors}
    /\ \E den \in {Predictions[name].den : name \in DOMAIN Predictions} :
         /\ \A name \in DOMAIN Predictions : Predictions[name].den = den
         /\ SumOver([name \in DOMAIN Predictions |-> Predictions[name].num],
                    DOMAIN Predictions) = 100 * den
    /\ LET total == SumOver(TableWeights, DOMAIN Predictions)
       IN \A name \in DOMAIN Predictions :
            /\ total # 0 =>
                 Predictions[name] = [num |-> TableWeights[name] * 100, den |-> total]
            /\ total = 0 =>
                 \A other \in DOMAIN Predictions :
                   Predictions[name] = Predictions[other]

C25_Witness ==
  /\ Predicted
  /\ currentWeek >= 4
  /\ \E name, other \in DOMAIN Predictions :
       Predictions[name].num > Predictions[other].num
  /\ \E e \in Entries : e.Position = 1 /\ Predictions[e.TeamName].num > 0

(***************************************************************************)
(* C26: the week counter of a League just created is 0, and no call of     *)
(* SimulateNextWeek, SimulateAllMatches or a correction, whatever it       *)
(* answers, and no week of playSeason leaves the counter lower than it     *)
(* found it.                                                               *)
(***************************************************************************)
C26_WeekCounterNeverDecreases ==
  [][/\ call.op = "start" => currentWeek = 0
     /\ call'.op \in MutatingOps \cup {"playSeason"}
          => currentWeek' >= currentWeek]_vars

C26_Witness ==
  /\ call.op \in MutatingOps
  /\ resp.status # StatusOK
  /\ currentWeek > db.week

(***************************************************************************)
(* C27: a successful SimulateAllMatches at week k ends with the week       *)
(* counter at the last week of the fixtures and every match played, and    *)
(* leaves the League that as many successful SimulateNextWeek calls as     *)
(* there are weeks after k leave; at the last week it changes nothing.     *)
(***************************************************************************)
RECURSIVE advanceWeeks(_, _)
advanceWeeks(lg, n) ==
  IF n = 0 THEN [ok |-> TRUE, lg |-> lg]
  ELSE IF ~hasMatches(lg.matches, lg.currentWeek + 1) THEN [ok |-> FALSE, lg |-> lg]
  ELSE advanceWeeks(weeklySimulator(lg), n - 1)

C27_CompletionIsRepeatedAdvance ==
  [][(call'.op = "SimulateAllMatches" /\ resp'.status = StatusOK) =>
       /\ currentWeek' = totalWeeks(matches)
       /\ \A i \in 1..Len(matches') : matches'[i].Played
       /\ currentWeek = totalWeeks(matches) => InMemoryUnchanged
       /\ \E r \in {advanceWeeks(League, totalWeeks(matches) - currentWeek)} :
            r.ok /\ MemoryBecomes(r.lg)]_vars

(***************************************************************************)
(* C28: after every operation on the League, and after initializeLeague,   *)
(* the league table is the table updateLeagueTable builds from the         *)
(* statistics league.Teams have now: one entry per team, with the team's   *)
(* wins, draws, losses, goals, goal difference and points.                 *)
(***************************************************************************)
EntriesNamed(name) == {i \in 1..Len(leagueTable) : leagueTable[i].TeamName = name}

C28_TableFollowsTheTeams ==
  (mode = "server" \/ call.op # "start") =>
    /\ Len(leagueTable) = NumTeams
    /\ \A t \in Competitors :
         /\ Cardinality(EntriesNamed(heap[t].TeamName)) = 1
         /\ \A i \in EntriesNamed(heap[t].TeamName) :
              /\ leagueTable[i].Wins = heap[t].Wins
              /\ leagueTable[i].Draws = heap[t].Draws
              /\ leagueTable[i].Losses = heap[t].Losses
              /\ leagueTable[i].GoalsFor = heap[t].GoalsFor
              /\ leagueTable[i].GoalsAgainst = heap[t].GoalsAgainst
              /\ leagueTable[i].GoalsDifference
                   = heap[t].GoalsFor - heap[t].GoalsAgainst
              /\ leagueTable[i].Points = heap[t].Points
    /\ leagueTable = updateLeagueTable(League).leagueTable

C28_Witness ==
  /\ mode = "server"
  /\ call.op \in MutatingOps
  /\ resp.status = StatusOK
  /\ \E t \in Competitors : heap[t].Draws > 0 /\ heap[t].Points > 0

(***************************************************************************)
(* C29: when SimulateNextWeek answers that there are no more matches, the  *)
(* week counter has the value it had before the call.                      *)
(***************************************************************************)
Refused == call'.op = "SimulateNextWeek" /\ resp' = NoMoreMatches

C29_RefusedAdvanceKeepsTheWeek == [][Refused => currentWeek' = currentWeek]_vars

\* The opposite reading: the refused call has counted one more week.
C29_RefusedAdvanceCountsTheWeek == [][Refused => currentWeek' = currentWeek + 1]_vars

C29_Witness ==
  /\ call.op = "SimulateNextWeek"
  /\ resp = NoMoreMatches
  /\ currentWeek = totalWeeks(matches)

(***************************************************************************)
(* C30: on a League that is created and then only advanced, completed and  *)
(* corrected, one call after the other, a match is played exactly when its *)
(* week is at most the week counter; a played match stays played, and the  *)
(* counter never passes the last week of the fixtures.                     *)
(***************************************************************************)
PlayedUpToCurrentWeek ==
  /\ \A i \in 1..Len(matches) :
       matches[i].Played <=> matches[i].Week <= currentWeek
  /\ currentWeek <= totalWeeks(matches)

C30_PlayedIffWeekReached ==
  [][/\ PlayedUpToCurrentWeek
     /\ \A i \in 1..Len(matches) :
          /\ matches'[i].Played <=> matches'[i].Week <= currentWeek'
          /\ matches[i].Played => matches'[i].Played
     /\ currentWeek' <= totalWeeks(matches)]_vars

C30_Witness ==
  /\ call.op = "editMatchResult"
  /\ resp.status = StatusOK
  /\ currentWeek > 1
  /\ currentWeek < totalWeeks(matches)
  /\ PlayedUpToCurrentWeek

(***************************************************************************)
(* C31: on a fresh League that is only advanced week by week and           *)
(* corrected, the first six advances are not refused, each counting one    *)
(* week and succeeding when its storage calls do, and every advance after  *)
(* them is refused with "no more matches", whatever corrections were made  *)
(* in between.                                                             *)
(***************************************************************************)
SeasonWeeks == 2 * NumLegWeeks

AdvanceCalled == call'.op = "SimulateNextWeek"

NonNegativeScorelines ==
  \A i \in 1..Len(matches) :
    matches[i].Played =>
      matches[i].HomeTeamScore >= 0 /\ matches[i].AwayTeamScore >= 0

NonNegativeStatistics ==
  \A t \in Competitors :
    /\ heap[t].GoalsFor >= 0
    /\ heap[t].GoalsAgainst >= 0
    /\ heap[t].Wins >= 0
    /\ heap[t].Draws >= 0
    /\ heap[t].Losses >= 0
    /\ heap[t].Points >= 0

C32_NothingNegative == NonNegativeScorelines /\ NonNegativeStatistics

(***************************************************************************)
(* C33: a successful correction of match m leaves m's played flag, week    *)
(* and teams, every other match, the records of the teams that do not play *)
(* in m, and the week counter as they were.                                *)
(***************************************************************************)
CorrectionSucceeds == call'.op = "editMatchResult" /\ resp'.status = StatusOK

C33_CorrectionFrame ==
  [][CorrectionSucceeds =>
       \E m \in MatchWithId(call'.id) :
         /\ matches'[m] = [matches[m] EXCEPT
                             !.HomeTeamScore = matches'[m].HomeTeamScore,
                             !.AwayTeamScore = matches'[m].AwayTeamScore]
         /\ \A j \in 1..Len(matches) : j # m => matches'[j] = matches[j]
         /\ Len(matches') = Len(matches)
         /\ \A r \in DOMAIN heap :
              ~involves(matches[m], heap[r].TeamId) => heap'[r] = heap[r]
         /\ currentWeek' = currentWeek]_vars

C33_Witness ==
  /\ call.op = "editMatchResult"
  /\ resp.status = StatusOK
  /\ hist # << >>
  /\ hist[Len(hist)].old # hist[Len(hist)].new
  /\ \E r \in DOMAIN heap : heap[r] # hist[Len(hist)].before[r]
  /\ \E i \in 1..Len(matches) : matches[i].Played /\ matches[i].MatchId # call.id

====
